---- MODULE Spec2Model ----
(***************************************************************************)
(* A model of the browser-automation script: the module-level session      *)
(* handle (browser, page), the one-shot formSubmitted flag, and the five   *)
(* agent-callable tools open_url, analyze_page, click_sidebar,             *)
(* fill_signup_form and finalize_session.  Every tool invocation is an     *)
(* async function: it runs to its next await and is suspended there, so    *)
(* invocations started in the same agent turn interleave at their awaits.  *)
(***************************************************************************)
EXTENDS Integers, Sequences, FiniteSets, TLC

(***************************************************************************)
(* Strings.  Attribute values and selector literals are sequences of       *)
(* characters, so that substring and case-insensitive matching are         *)
(* computed and not assumed.                                               *)
(***************************************************************************)
s_empty == << >>
s_first == <<"f", "i", "r", "s", "t">>
s_last == <<"l", "a", "s", "t">>
s_email == <<"e", "m", "a", "i", "l">>
s_password == <<"p", "a", "s", "s", "w", "o", "r", "d">>
s_confirm == <<"c", "o", "n", "f", "i", "r", "m">>
s_firstName == <<"f", "i", "r", "s", "t", "N", "a", "m", "e">>
s_lastName == <<"l", "a", "s", "t", "N", "a", "m", "e">>
s_confirmPassword == <<"c", "o", "n", "f", "i", "r", "m", "P", "a", "s", "s", "w", "o", "r", "d">>
s_submit == <<"s", "u", "b", "m", "i", "t">>
s_SignUp == <<"S", "i", "g", "n", " ", "U", "p">>
s_CreateAccount == <<"C", "r", "e", "a", "t", "e", " ", "A", "c", "c", "o", "u", "n", "t">>
\* values that occur only in pages, never in the program
s_text == <<"t", "e", "x", "t">>
s_mail == <<"m", "a", "i", "l">>
s_pw == <<"p", "w">>
s_pw2 == <<"p", "w", "2">>
s_Password == <<"P", "a", "s", "s", "w", "o", "r", "d">>
s_ConfirmPassword == <<"C", "o", "n", "f", "i", "r", "m", " ", "P", "a", "s", "s", "w", "o", "r", "d">>
s_Repeat == <<"R", "e", "p", "e", "a", "t">>
s_Home == <<"H", "o", "m", "e">>

UpperChars == <<"A", "B", "C", "D", "E", "F", "G", "H", "I", "J", "K", "L", "M",
                "N", "O", "P", "Q", "R", "S", "T", "U", "V", "W", "X", "Y", "Z">>
LowerChars == <<"a", "b", "c", "d", "e", "f", "g", "h", "i", "j", "k", "l", "m",
                "n", "o", "p", "q", "r", "s", "t", "u", "v", "w", "x", "y", "z">>

LowerChar(c) ==
    IF \E i \in 1..Len(UpperChars) : UpperChars[i] = c
    THEN LowerChars[CHOOSE i \in 1..Len(UpperChars) : UpperChars[i] = c]
    ELSE c

Lower(s) == [i \in 1..Len(s) |-> LowerChar(s[i])]

\* s contains sub as a substring (sub is never empty in the program)
Contains(s, sub) ==
    \E i \in 0..(Len(s) - Len(sub)) : SubSeq(s, i + 1, i + Len(sub)) = sub

ContainsCI(s, sub) == Contains(Lower(s), Lower(sub))

EqualsCI(s, t) == Lower(s) = Lower(t)

(***************************************************************************)
(* Pages.  A DOM is a sequence of elements in document order; an element   *)
(* has a tag, the attributes the selectors read, its own text, and whether *)
(* it is rendered (visible).  An absent attribute is the empty string.     *)
(***************************************************************************)
Elem(tag, role, type, name, id, ph, text, vis) ==
    [tag |-> tag, role |-> role, type |-> type, name |-> name, id |-> id, ph |-> ph,
     text |-> text, vis |-> vis]

\* role is what the page's author means an input for; no selector can read it
Input(role, type, name, id, ph) == Elem("input", role, type, name, id, ph, s_empty, TRUE)
Tag(tag, type, text, vis) == Elem(tag, "", type, s_empty, s_empty, s_empty, text, vis)
Button(type, text, vis) == Tag("button", type, text, vis)
Anchor(text, vis) == Tag("a", s_empty, text, vis)

(***************************************************************************)
(* Selectors.  k is the selector's form:                                   *)
(*   subi   tag[attr*="v" i]      eqi   tag[attr="v" i]                    *)
(*   eq     tag[attr="v"]         id    #v                                 *)
(*   pwnc   input[type="password"]:not([name*="confirm" i])                *)
(*              :not([id*="confirm" i]):not([placeholder*="confirm" i])    *)
(*   text   text=v                hastext  tag:has-text("v")               *)
(*   submit the comma-separated union the submit button is looked up with  *)
(***************************************************************************)
Sel(k, tag, attr, v) == [k |-> k, tag |-> tag, attr |-> attr, v |-> v]

HasText(e, v) == ContainsCI(e.text, v)

Matches(sel, e) ==
    CASE sel.k = "subi" -> e.tag = sel.tag /\ ContainsCI(e[sel.attr], sel.v)
      [] sel.k = "eqi" -> e.tag = sel.tag /\ EqualsCI(e[sel.attr], sel.v)
      [] sel.k = "eq" -> e.tag = sel.tag /\ e[sel.attr] = sel.v
      [] sel.k = "id" -> e.id = sel.v
      [] sel.k = "pwnc" ->
            /\ e.tag = "input"
            /\ e.type = s_password
            /\ ~ContainsCI(e.name, s_confirm)
            /\ ~ContainsCI(e.id, s_confirm)
            /\ ~ContainsCI(e.ph, s_confirm)
      [] sel.k = "text" -> HasText(e, sel.v)
      [] sel.k = "hastext" -> e.tag = sel.tag /\ HasText(e, sel.v)
      [] sel.k = "submit" ->
            /\ e.tag = "button"
            /\ \/ e.type = s_submit
               \/ HasText(e, s_SignUp)
               \/ HasText(e, s_CreateAccount)

FieldNames == <<"firstName", "lastName", "email", "password", "confirmPassword">>

FieldSelectors(f) ==
    CASE f = "firstName" ->
            << Sel("subi", "input", "name", s_first),
               Sel("id", "", "id", s_firstName),
               Sel("subi", "input", "ph", s_first) >>
      [] f = "lastName" ->
            << Sel("subi", "input", "name", s_last),
               Sel("id", "", "id", s_lastName),
               Sel("subi", "input", "ph", s_last) >>
      [] f = "email" ->
            << Sel("eq", "input", "type", s_email),
               Sel("eqi", "input", "name", s_email),
               Sel("id", "", "id", s_email),
               Sel("subi", "input", "ph", s_email) >>
      [] f = "password" ->
            << Sel("eqi", "input", "name", s_password),
               Sel("id", "", "id", s_password),
               Sel("subi", "input", "ph", s_password),
               Sel("pwnc", "input", "type", s_password) >>
      [] f = "confirmPassword" ->
            << Sel("subi", "input", "name", s_confirm),
               Sel("id", "", "id", s_confirmPassword),
               Sel("subi", "input", "ph", s_confirm) >>

SidebarSelectors(label) ==
    << Sel("text", "", "text", label),
       Sel("hastext", "a", "text", label),
       Sel("hastext", "button", "text", label) >>

SubmitSelector == Sel("submit", "button", "type", s_submit)

\* locator(sel).count(): how many elements of the DOM the selector matches
Count(sel, d) == Cardinality({j \in 1..Len(d) : Matches(sel, d[j])})

\* locator(sel).first(): the first match in document order (0: none)
First(sel, d) ==
    IF Count(sel, d) = 0 THEN 0
    ELSE CHOOSE j \in 1..Len(d) :
            /\ Matches(sel, d[j])
            /\ \A k \in 1..(j - 1) : ~Matches(sel, d[k])

\* for (const sel of selectors) { if (await loc.count() > 0) { ...; break } }:
\* the index of the selector the loop stops at, 0 when it runs off the end
RECURSIVE ResolveFrom(_, _, _)
ResolveFrom(sels, d, i) ==
    IF i > Len(sels) THEN 0
    ELSE IF Count(sels[i], d) > 0 THEN i
    ELSE ResolveFrom(sels, d, i + 1)

\* the loop, were it to go on to the last selector that matches
Resolve_Last(sels, d) ==
    IF \A i \in 1..Len(sels) : Count(sels[i], d) = 0 THEN 0
    ELSE CHOOSE i \in 1..Len(sels) :
            /\ Count(sels[i], d) > 0
            /\ \A j \in (i + 1)..Len(sels) : Count(sels[j], d) = 0

Resolve(sels, d) == ResolveFrom(sels, d, 1)

\* how many selectors the loop evaluated (count() calls) before it stopped
Evaluated(sels, d) == IF Resolve(sels, d) = 0 THEN Len(sels) ELSE Resolve(sels, d)


(***************************************************************************)
(* Bounds of the model.                                                    *)
(***************************************************************************)
\* tool invocations that may be in flight at the same time
NProc == 2
\* browsers chromium.launch hands out in one run of the process
MaxLaunch == 2

Procs == 1..NProc
BrowserIds == 1..MaxLaunch

Tools == {"open_url", "analyze_page", "click_sidebar", "fill_signup_form",
          "finalize_session"}

\* the pages open_url can be pointed at
SiteSignup ==
    << Anchor(s_SignUp, TRUE),
       Input("firstName", s_text, s_firstName, s_empty, s_empty),
       Input("lastName", s_text, s_lastName, s_empty, s_empty),
       Input("email", s_email, s_mail, s_empty, s_empty),
       Input("password", s_password, s_password, s_empty, s_Password),
       Input("confirmPassword", s_password, s_confirmPassword, s_empty, s_ConfirmPassword),
       Button(s_submit, s_CreateAccount, TRUE) >>

SiteNoSubmit ==
    << Anchor(s_Home, TRUE),
       Input("email", s_text, s_empty, s_email, s_empty),
       Input("password", s_password, s_pw, s_empty, s_Password),
       Input("confirmPassword", s_password, s_pw2, s_empty, s_ConfirmPassword) >>

SiteHidden ==
    << Anchor(s_SignUp, FALSE),
       Anchor(s_SignUp, TRUE),
       Button(s_empty, s_Home, TRUE) >>

Blank == << >>

\* the blank page of a new tab, then the pages open_url is pointed at
Crafted == <<Blank, SiteSignup, SiteNoSubmit>>

(***************************************************************************)
(* Generated pages: every form of a password input and a confirm-password  *)
(* input, in both document orders, that these attribute values give; and   *)
(* every pair of links, buttons and blocks with these texts.               *)
(***************************************************************************)
PwNames == <<s_empty, s_password, s_pw>>
PwIds == <<s_empty, s_password>>
PwPhs == <<s_empty, s_Password>>
CfNames == <<s_empty, s_confirmPassword, s_pw2>>
CfIds == <<s_empty, s_confirmPassword>>
CfPhs == <<s_empty, s_ConfirmPassword, s_Repeat>>
NavTags == <<"a", "button", "div">>
NavTexts == <<s_SignUp, s_Home>>
NavVis == <<TRUE, FALSE>>

\* the digit of k at the place of weight w, as an element of sq
Pick(sq, k, w) == sq[1 + ((k \div w) % Len(sq))]

NPw == Len(PwNames) * Len(PwIds) * Len(PwPhs)
NCf == Len(CfNames) * Len(CfIds) * Len(CfPhs)
NNav == Len(NavTags) * Len(NavTexts) * Len(NavVis)

GenPw(k) ==
    Input("password", s_password, Pick(PwNames, k, 1), Pick(PwIds, k, Len(PwNames)),
          Pick(PwPhs, k, Len(PwNames) * Len(PwIds)))
GenCf(k) ==
    Input("confirmPassword", s_password, Pick(CfNames, k, 1), Pick(CfIds, k, Len(CfNames)),
          Pick(CfPhs, k, Len(CfNames) * Len(CfIds)))
GenNav(k) ==
    Tag(Pick(NavTags, k, 1), s_empty, Pick(NavTexts, k, Len(NavTags)),
        Pick(NavVis, k, Len(NavTags) * Len(NavTexts)))

NForms == 2 * NPw * NCf
NNavs == NNav * NNav

GenForm(k) ==
    LET pw == GenPw((k \div 2) % NPw)
        cf == GenCf(k \div (2 * NPw))
    IN  IF k % 2 = 0 THEN <<pw, cf>> ELSE <<cf, pw>>
GenNavs(k) == <<GenNav(k % NNav), GenNav(k \div NNav)>>

\* the caps of the page summary (extractPageSummary's slice calls)
MaxHeadings == 10
MaxClickable == 30
MaxInputs == 40

s_hidden == <<"h", "i", "d", "d", "e", "n">>

\* a long page: more headings, links and inputs than the summary keeps, the
\* first heading empty and the first link not rendered
SiteLong ==
    [j \in 1..(MaxHeadings + 3) |->
        Tag("h2", s_empty, IF j = 1 THEN s_empty ELSE s_Home, TRUE)]
    \o [j \in 1..(MaxClickable + 3) |-> Anchor(s_Home, j > 1)]
    \o [j \in 1..(MaxInputs + 2) |-> Input("", s_text, s_empty, s_empty, s_empty)]

\* a form with an input that is not rendered (a prefilled hidden first name)
\* before its email
SiteToken ==
    << Elem("input", "firstName", s_hidden, s_firstName, s_empty, s_empty, s_empty, FALSE),
       Input("email", s_email, s_email, s_empty, s_empty),
       Button(s_submit, s_SignUp, TRUE) >>

LongPages == <<SiteHidden, SiteLong, SiteToken>>

\* pages are named by a number: the crafted ones first, then the generated ones
NPages == Len(Crafted) + NForms + NNavs + Len(LongPages)
PageNames == 1..NPages
BlankPage == CHOOSE u \in 1..Len(Crafted) : Crafted[u] = Blank
Sites == 2..Len(Crafted)
Generated == (Len(Crafted) + 1)..NPages
Labels == {s_SignUp, s_Home}

DomOf(u) ==
    IF u <= Len(Crafted) THEN Crafted[u]
    ELSE IF u <= Len(Crafted) + NForms THEN GenForm(u - Len(Crafted) - 1)
    ELSE IF u <= Len(Crafted) + NForms + NNavs
    THEN GenNavs(u - Len(Crafted) - NForms - 1)
    ELSE LongPages[u - Len(Crafted) - NForms - NNavs]

(***************************************************************************)
(* State.                                                                  *)
(***************************************************************************)
VARIABLES
    browser,        \* let browser: a browser id, 0 for undefined/null
    page,           \* let page: a page id, 0 for undefined/null
    formSubmitted,  \* let formSubmitted
    live,           \* driver: the browsers launched and not closed
    nLaunch,        \* driver: how many browsers were launched so far
    dom,            \* driver: what each page shows (page i belongs to browser i)
    task,           \* each invocation slot: where its async function is suspended
    ret,            \* history: the invocation that returned in the last step
    sess,           \* history: browsers launched and pages opened since
                    \*          closeBrowser last cleared the handles
    fillOK,         \* history: some fill_signup_form call returned success
    href,           \* driver: the address each page is at (location.href)
    summaryCache,   \* const summaryCache (the variant with take_screenshot)
    main            \* main(): where it is, how run() settled, the browser its
                    \*         closeBrowser closes

vars == <<browser, page, formSubmitted, live, nLaunch, dom, task, ret, sess, fillOK,
          href, summaryCache, main>>

\* what an invocation did to the page: count() calls, the elements typed into
\* and clicked, and for each selector list it went through, where it stopped
NoIO == [query |-> 0, typed |-> {}, clicked |-> << >>, acts |-> << >>,
         close |-> 0, flaky |-> FALSE]

IdleTask == [pc |-> "idle", tool |-> "none", cont |-> "none", br |-> 0, pg |-> 0,
             mine |-> 0, filled |-> {}, data |-> << >>, io |-> NoIO]

NoSummary == [none |-> TRUE]
NoRet == [tool |-> "none", out |-> [none |-> TRUE], io |-> NoIO, pg |-> 0]

\* main() awaits run(agent, ...)
MainRuns == [pc |-> "run", run |-> "pending", target |-> 0]

\* the objects execute() returns
ErrorOut == [success |-> FALSE, error |-> "err.message"]
RejectedOut == [success |-> FALSE, error |-> "Form already submitted"]
NotFoundOut == [success |-> FALSE, error |-> "not_found"]
ClosedOut == [success |-> TRUE, message |-> "Browser closed, session ended."]
\* execute() rejected: the exception left the tool
ThrownOut == [thrown |-> TRUE]

Init ==
    /\ browser = 0
    /\ page = 0
    /\ formSubmitted = FALSE
    /\ live = {}
    /\ nLaunch = 0
    /\ dom = [i \in BrowserIds |-> BlankPage]
    /\ task = [p \in Procs |-> IdleTask]
    /\ ret = NoRet
    /\ sess = [launch |-> 0, newPage |-> 0]
    /\ fillOK = FALSE
    /\ href = dom
    /\ summaryCache = << >>
    /\ main = MainRuns

\* a page operation can succeed only on a page whose browser is still open
PageAlive(pg) == pg # 0 /\ pg \in live

\* the invocation in slot p goes on, suspended at its next await
Continue(p, t) ==
    /\ task' = [task EXCEPT ![p] = t]
    /\ ret' = NoRet
    /\ fillOK' = fillOK
    /\ UNCHANGED <<summaryCache, main>>

\* execute() returns `out` from an invocation at t, having done i: the slot is free
Return(p, t, out, i) ==
    /\ task' = [task EXCEPT ![p] = IdleTask]
    /\ ret' = [tool |-> t.tool, out |-> out, io |-> i, pg |-> t.pg]
    /\ fillOK' = (fillOK \/ (t.tool = "fill_signup_form" /\ out # ThrownOut /\ out.success))
    /\ UNCHANGED <<summaryCache, main>>

(***************************************************************************)
(* Page summary (extractPageSummary, evaluated inside the page).           *)
(***************************************************************************)
s_button == <<"b", "u", "t", "t", "o", "n">>

\* slice(0, n), were it to keep everything
Take_All(sq, n) == sq

\* slice(0, n)
Take(sq, n) == SubSeq(sq, 1, IF Len(sq) < n THEN Len(sq) ELSE n)

IsHeading(e) == e.tag \in {"h1", "h2", "h3"}
IsClickable(e) ==
    \/ e.tag \in {"a", "button"}
    \/ e.tag = "input" /\ e.type \in {s_button, s_submit}
IsInput(e) == e.tag \in {"input", "textarea", "select"}
isVisible(e) == e.vis
Truthy(e) == e.text # s_empty

Indices(d) == [j \in 1..Len(d) |-> j]

\* the summary lists elements by their position in the DOM
extractPageSummary(d) ==
    [headings |->
        Take(SelectSeq(Indices(d), LAMBDA j : IsHeading(d[j]) /\ Truthy(d[j])), MaxHeadings),
     clickable |->
        Take(SelectSeq(Indices(d), LAMBDA j : IsClickable(d[j]) /\ isVisible(d[j])),
             MaxClickable),
     inputs |-> Take(SelectSeq(Indices(d), LAMBDA j : IsInput(d[j])), MaxInputs)]

(***************************************************************************)
(* launchBrowser and closeBrowser.                                         *)
(***************************************************************************)
\* launchBrowser() up to its first await, called by the invocation at t; cont
\* is where the caller goes on once launchBrowser returned
LaunchEnter_Always(p, t, cont) ==
    Continue(p, [t EXCEPT !.pc = "launch", !.cont = cont])

LaunchEnter(p, t, cont) ==
    IF browser = 0
    THEN \* browser = await chromium.launch(...)
         Continue(p, [t EXCEPT !.pc = "launch", !.cont = cont])
    ELSE \* return { browser, page }
         Continue(p, [t EXCEPT !.pc = cont, !.br = browser, !.pg = page])

\* closeBrowser() up to its await, called by finalize_session
CloseEnter_NoGuard(p, t) ==
    Continue(p, [t EXCEPT !.pc = "closing", !.mine = browser, !.io.close = @ + 1])

CloseEnter(p, t) ==
    IF browser # 0
    THEN \* await browser.close()
         Continue(p, [t EXCEPT !.pc = "closing", !.mine = browser, !.io.close = @ + 1])
    ELSE Return(p, t, ClosedOut, t.io)

(***************************************************************************)
(* The agent invokes a tool: execute() runs up to its first await.  With   *)
(* seq, tools are invoked one at a time (each after the previous returned).*)
(***************************************************************************)
Call_NoGuard(p, t, seq) ==
    /\ main.pc = "run"
    /\ task[p].pc = "idle"
    /\ seq => \A q \in Procs : task[q].pc = "idle"
    /\ LET t0 == [IdleTask EXCEPT !.tool = t]
       IN  IF t = "finalize_session"
           THEN CloseEnter(p, t0)
           ELSE LaunchEnter(p, t0, "body")
    /\ UNCHANGED <<browser, page, formSubmitted, live, nLaunch, dom, href, sess>>

Call(p, t, seq) ==
    /\ main.pc = "run"
    /\ task[p].pc = "idle"
    /\ seq => \A q \in Procs : task[q].pc = "idle"
    /\ LET t0 == [IdleTask EXCEPT !.tool = t]
       IN  IF t = "fill_signup_form" /\ formSubmitted
           THEN Return(p, t0, RejectedOut, t0.io)
           ELSE IF t = "finalize_session"
           THEN CloseEnter(p, t0)
           ELSE LaunchEnter(p, t0, "body")
    /\ UNCHANGED <<browser, page, formSubmitted, live, nLaunch, dom, href, sess>>

\* chromium.launch settles
LaunchDone(p, ok) ==
    /\ task[p].pc = "launch"
    /\ ok => nLaunch < MaxLaunch
    /\ IF ok
       THEN \* browser = <new>; page = await browser.newPage()
            /\ browser' = nLaunch + 1
            /\ nLaunch' = nLaunch + 1
            /\ live' = live \cup {nLaunch + 1}
            /\ sess' = [sess EXCEPT !.launch = @ + 1]
            /\ Continue(p, [task[p] EXCEPT !.pc = "newpage", !.mine = nLaunch + 1])
       ELSE /\ Return(p, task[p], ErrorOut, [task[p].io EXCEPT !.flaky = TRUE])
            /\ UNCHANGED <<browser, nLaunch, live, sess>>
    /\ UNCHANGED <<page, formSubmitted, dom, href>>

\* browser.newPage settles; it cannot succeed on a browser closed meanwhile
NewPageDone(p, ok) ==
    /\ task[p].pc = "newpage"
    /\ IF ok /\ task[p].mine \in live
       THEN \* page = <new>; return { browser, page }
            /\ page' = task[p].mine
            /\ sess' = [sess EXCEPT !.newPage = @ + 1]
            /\ Continue(p, [task[p] EXCEPT !.pc = task[p].cont, !.cont = "none",
                                           !.br = browser, !.pg = task[p].mine,
                                           !.mine = 0])
       ELSE /\ Return(p, task[p], ErrorOut,
                      [task[p].io EXCEPT !.flaky = task[p].mine \in live])
            /\ UNCHANGED <<page, sess>>
    /\ UNCHANGED <<browser, formSubmitted, live, nLaunch, dom, href>>

\* closeBrowser: browser.close settles
CloseDone_Reset(p, ok) ==
    /\ task[p].pc = "closing"
    /\ IF ok
       THEN /\ live' = live \ {task[p].mine}
            /\ browser' = 0
            /\ page' = 0
            /\ sess' = [launch |-> 0, newPage |-> 0]
            /\ formSubmitted' = FALSE
            /\ Return(p, task[p], ClosedOut, task[p].io)
       ELSE /\ Return(p, task[p], ThrownOut, [task[p].io EXCEPT !.flaky = TRUE])
            /\ UNCHANGED <<live, browser, page, sess, formSubmitted>>
    /\ UNCHANGED <<nLaunch, dom, href>>

CloseDone(p, ok) ==
    /\ task[p].pc = "closing"
    /\ IF ok
       THEN \* browser = page = null
            /\ live' = live \ {task[p].mine}
            /\ browser' = 0
            /\ page' = 0
            /\ sess' = [launch |-> 0, newPage |-> 0]
            /\ Return(p, task[p], ClosedOut, task[p].io)
       ELSE \* finalize_session has no try/catch: the rejection leaves execute()
            /\ Return(p, task[p], ThrownOut, [task[p].io EXCEPT !.flaky = TRUE])
            /\ UNCHANGED <<live, browser, page, sess>>
    /\ UNCHANGED <<formSubmitted, nLaunch, dom, href>>

(***************************************************************************)
(* The tools' bodies, after launchBrowser returned.  A driver operation    *)
(* may reject on its own (a timeout, a crashed page: `flaky`); on a closed *)
(* page, or on an element that is not rendered, it rejects in any case.    *)
(***************************************************************************)
Flaky(i, by) == [i EXCEPT !.flaky = @ \/ by]

\* open_url: await page.goto(url, ...)
Goto(p, url, ok, landed) ==
    /\ task[p].pc = "body"
    /\ task[p].tool = "open_url"
    /\ IF ok /\ PageAlive(task[p].pg)
       THEN /\ dom' = [dom EXCEPT ![task[p].pg] = url]
            /\ Return(p, task[p], [success |-> TRUE, opened |-> url], task[p].io)
       ELSE \* a navigation that timed out may or may not have replaced the document
            /\ dom' = IF landed /\ PageAlive(task[p].pg)
                      THEN [dom EXCEPT ![task[p].pg] = url]
                      ELSE dom
            /\ Return(p, task[p], ErrorOut, Flaky(task[p].io, PageAlive(task[p].pg)))
    /\ href' = IF dom' = dom THEN href ELSE [href EXCEPT ![task[p].pg] = url]
    /\ UNCHANGED <<browser, page, formSubmitted, live, nLaunch, sess>>

\* the summary of each address, as page.evaluate computes it
SummaryOf == [u \in PageNames |-> extractPageSummary(DomOf(u))] @@ << >>

\* analyze_page: const analysis = await extractPageSummary()
Evaluate(p, include_image, ok) ==
    /\ task[p].pc = "body"
    /\ task[p].tool = "analyze_page"
    /\ IF ok /\ PageAlive(task[p].pg)
       THEN LET analysis == SummaryOf[dom[task[p].pg]]
                t1 == [task[p] EXCEPT !.io.query = @ + 1]
            IN  IF ~include_image
                THEN Return(p, t1, [success |-> TRUE, analysis |-> analysis], t1.io)
                ELSE \* getScreenshotBase64: const { page } = await launchBrowser()
                     LaunchEnter(p, [t1 EXCEPT !.data = analysis], "shot")
       ELSE Return(p, task[p], ErrorOut, Flaky(task[p].io, PageAlive(task[p].pg)))
    /\ UNCHANGED <<browser, page, formSubmitted, live, nLaunch, dom, href, sess>>

\* analyze_page: page.setViewportSize, page.screenshot
Shot(p, ok) ==
    /\ task[p].pc = "shot"
    /\ IF ok /\ PageAlive(task[p].pg)
       THEN Return(p, task[p],
                   [success |-> TRUE, analysis |-> task[p].data, base64 |-> "jpeg"],
                   task[p].io)
       ELSE Return(p, task[p], ErrorOut, Flaky(task[p].io, PageAlive(task[p].pg)))
    /\ UNCHANGED <<browser, page, formSubmitted, live, nLaunch, dom, href, sess>>

\* a selector list gone through on DOM d: the selector the loop stopped at (0:
\* none matched), that selector's first element and whether it is rendered, and
\* how many selectors were evaluated
Found(list, sels, d) ==
    LET k == Resolve(sels, d)
        e == IF k = 0 THEN 0 ELSE First(sels[k], d)
    IN  [list |-> list, sel |-> k, elt |-> e, vis |-> e # 0 /\ d[e].vis,
         evald |-> Evaluated(sels, d)]

Act(i, r) == [i EXCEPT !.query = @ + r.evald, !.acts = Append(@, r)]

SidebarFails == {"none", "query", "act"}

\* the selector loops' outcome on each page, worked out once
SidebarFound ==
    [x \in PageNames \X Labels |-> Found(x[2], SidebarSelectors(x[2]), DomOf(x[1]))]
    @@ << >>
FieldFound ==
    [x \in PageNames \X (1..Len(FieldNames)) |->
        Found(FieldNames[x[2]], FieldSelectors(FieldNames[x[2]]), DomOf(x[1]))]
    @@ << >>

\* click_sidebar on page u: the object returned and what was done to the page
clickSidebar(u, label, fail, i) ==
    LET sels == SidebarSelectors(label)
        r == SidebarFound[<<u, label>>]
    IN  IF fail = "query"
        THEN \* loc.count() rejects
             [out |-> ErrorOut, io |-> Flaky(i, TRUE)]
        ELSE IF r.sel = 0
        THEN [out |-> NotFoundOut, io |-> Act(i, r)]
        ELSE IF fail = "act" \/ ~r.vis
        THEN \* scrollIntoViewIfNeeded / hover / click rejects
             [out |-> ErrorOut, io |-> Flaky(Act(i, r), r.vis)]
        ELSE [out |-> [success |-> TRUE, clicked |-> label, selector |-> sels[r.sel]],
              io |-> [Act(i, r) EXCEPT !.clicked = Append(@, r.elt)]]

SidebarTab ==
    [x \in PageNames \X Labels \X SidebarFails |->
        clickSidebar(x[1], x[2], x[3], NoIO)] @@ << >>

ClickSidebar(p, label, fail) ==
    /\ task[p].pc = "body"
    /\ task[p].tool = "click_sidebar"
    /\ IF ~PageAlive(task[p].pg)
       THEN Return(p, task[p], ErrorOut, task[p].io)
       ELSE LET r == SidebarTab[<<dom[task[p].pg], label, fail>>]
            IN  Return(p, task[p], r.out, r.io)
    /\ UNCHANGED <<browser, page, formSubmitted, live, nLaunch, dom, href, sess>>

FieldFails == {"query", "scroll", "type"}
\* the driver operation that rejects on its own: which kind, in which field's round
Faults == {<<0, "none">>} \cup ((1..Len(FieldNames)) \X FieldFails)

\* fill_signup_form: `for (const field of fields)` from field n on, on page u;
\* st is the loop's state: filled, what was done, and whether it threw
RECURSIVE fillFields(_, _, _, _)
fillFields(u, n, fault, st) ==
    IF n > Len(FieldNames) \/ st.threw THEN st
    ELSE LET f == FieldNames[n]
             r == FieldFound[<<u, n>>]
             hit == fault[1] = n
         IN  IF hit /\ fault[2] = "query"
             THEN [st EXCEPT !.threw = TRUE, !.io = Flaky(@, TRUE)]
             ELSE IF r.sel = 0
             THEN \* no selector matched: the field is skipped
                  fillFields(u, n + 1, fault, [st EXCEPT !.io = Act(@, r)])
             ELSE IF (hit /\ fault[2] = "scroll") \/ ~r.vis
             THEN \* loc.scrollIntoViewIfNeeded() rejects
                  [st EXCEPT !.threw = TRUE, !.io = Flaky(Act(@, r), r.vis)]
             ELSE IF hit /\ fault[2] = "type"
             THEN \* loc.type(char) rejects; click and clear swallow their errors
                  [st EXCEPT !.threw = TRUE,
                             !.io = Flaky([Act(@, r) EXCEPT !.clicked = Append(@, r.elt)],
                                          TRUE)]
             ELSE \* typed; filled[field.name] = vals[field.name]; break
                  fillFields(u, n + 1, fault,
                      [st EXCEPT !.filled = @ \cup {f},
                                 !.io = [Act(@, r) EXCEPT
                                            !.clicked = Append(@, r.elt),
                                            !.typed = @ \cup {<<f, r.elt>>}]])

FillTab ==
    [x \in PageNames \X Faults |->
        fillFields(x[1], 1, x[2], [filled |-> {}, io |-> NoIO, threw |-> FALSE])]
    @@ << >>

FillFields(p, fault) ==
    /\ task[p].pc = "body"
    /\ task[p].tool = "fill_signup_form"
    /\ IF ~PageAlive(task[p].pg)
       THEN Return(p, task[p], ErrorOut, task[p].io)
       ELSE LET st == FillTab[<<dom[task[p].pg], fault>>]
            IN  IF st.threw
                THEN Return(p, task[p], ErrorOut, st.io)
                ELSE Continue(p, [task[p] EXCEPT !.pc = "submit", !.filled = st.filled,
                                                 !.io = st.io])
    /\ UNCHANGED <<browser, page, formSubmitted, live, nLaunch, dom, href, sess>>

\* the object `filled`: each filled field with the value passed for it
FilledObject(fields) == [f \in fields |-> <<"vals", f>>]

\* the submit button on DOM d: whether the click threw, and what was done
submitForm(d, fail) ==
    LET n == Count(SubmitSelector, d)
        e == First(SubmitSelector, d)
        i1 == Act(NoIO, [list |-> "submit", sel |-> IF n > 0 THEN 1 ELSE 0, elt |-> e,
                         vis |-> e # 0 /\ d[e].vis, evald |-> 1])
    IN  IF fail = "query"
        THEN [threw |-> TRUE, io |-> Flaky(NoIO, TRUE)]
        ELSE IF n > 0 /\ (fail = "act" \/ ~d[e].vis)
        THEN \* btn.first().click() rejects
             [threw |-> TRUE, io |-> Flaky(i1, d[e].vis)]
        ELSE [threw |-> FALSE,
              io |-> [i1 EXCEPT !.clicked = IF n > 0 THEN Append(@, e) ELSE @]]

SubmitTab ==
    [x \in PageNames \X SidebarFails |-> submitForm(DomOf(x[1]), x[2])]
    @@ << >>

\* what an invocation did: first i, then j
Then(i, j) ==
    [query |-> i.query + j.query, typed |-> i.typed \cup j.typed,
     clicked |-> i.clicked \o j.clicked, acts |-> i.acts \o j.acts,
     close |-> i.close + j.close, flaky |-> i.flaky \/ j.flaky]

\* the same, were formSubmitted set before the click instead of after it
Submit_FlagFirst(p, fail) ==
    /\ task[p].pc = "submit"
    /\ IF ~PageAlive(task[p].pg)
       THEN /\ Return(p, task[p], ErrorOut, task[p].io)
            /\ UNCHANGED formSubmitted
       ELSE LET st == SubmitTab[<<dom[task[p].pg], fail>>]
            IN  /\ formSubmitted' = TRUE
                /\ IF st.threw
                   THEN Return(p, task[p], ErrorOut, Then(task[p].io, st.io))
                   ELSE Return(p, task[p],
                               [success |-> TRUE,
                                filled |-> FilledObject(task[p].filled)],
                               Then(task[p].io, st.io))
    /\ UNCHANGED <<browser, page, live, nLaunch, dom, href, sess>>

\* fill_signup_form: the submit button, formSubmitted = true, return
Submit(p, fail) ==
    /\ task[p].pc = "submit"
    /\ IF ~PageAlive(task[p].pg)
       THEN /\ Return(p, task[p], ErrorOut, task[p].io)
            /\ UNCHANGED formSubmitted
       ELSE LET st == SubmitTab[<<dom[task[p].pg], fail>>]
            IN  IF st.threw
                THEN /\ Return(p, task[p], ErrorOut, Then(task[p].io, st.io))
                     /\ UNCHANGED formSubmitted
                ELSE /\ formSubmitted' = TRUE
                     /\ Return(p, task[p],
                               [success |-> TRUE,
                                filled |-> FilledObject(task[p].filled)],
                               Then(task[p].io, st.io))
    /\ UNCHANGED <<browser, page, live, nLaunch, dom, href, sess>>

(***************************************************************************)
(* The specifications.  Spec: the agent may invoke several tools in one    *)
(* turn, which then overlap.  SeqSpec: it invokes them one after another.  *)
(***************************************************************************)
Step(p) ==
    \/ \E ok \in BOOLEAN : LaunchDone(p, ok)
    \/ \E ok \in BOOLEAN : NewPageDone(p, ok)
    \/ \E ok \in BOOLEAN : CloseDone(p, ok)
    \/ \E url \in Sites, ok \in BOOLEAN, landed \in BOOLEAN : Goto(p, url, ok, landed)
    \/ \E img \in BOOLEAN, ok \in BOOLEAN : Evaluate(p, img, ok)
    \/ \E ok \in BOOLEAN : Shot(p, ok)
    \/ \E label \in Labels, fail \in SidebarFails : ClickSidebar(p, label, fail)
    \/ \E fault \in Faults : FillFields(p, fault)
    \/ \E fail \in SidebarFails : Submit(p, fail)

Next == \E p \in Procs : (\E t \in Tools : Call(p, t, FALSE)) \/ Step(p)

SeqNext == \E p \in Procs : (\E t \in Tools : Call(p, t, TRUE)) \/ Step(p)

Spec == Init /\ [][Next]_vars

SeqSpec == Init /\ [][SeqNext]_vars

(***************************************************************************)
(* main(): try { await run(agent, ...) } catch { log } finally { await     *)
(* closeBrowser() }.  run() settles once the tool invocations it started   *)
(* have returned.                                                          *)
(***************************************************************************)
\* run() resolves or rejects; finally: closeBrowser() up to its await
RunSettles(ok) ==
    /\ main.pc = "run"
    /\ \A p \in Procs : task[p].pc = "idle"
    /\ main' = [pc |-> IF browser # 0 THEN "closing" ELSE "done",
                run |-> IF ok THEN "resolved" ELSE "rejected",
                target |-> browser]
    /\ ret' = NoRet
    /\ UNCHANGED <<browser, page, formSubmitted, live, nLaunch, dom, task, sess, fillOK,
                   href, summaryCache>>

\* closeBrowser in main's finally: browser.close settles
MainCloseDone(ok) ==
    /\ main.pc = "closing"
    /\ IF ok
       THEN \* browser = page = null; main returns
            /\ live' = live \ {main.target}
            /\ browser' = 0
            /\ page' = 0
            /\ sess' = [launch |-> 0, newPage |-> 0]
            /\ main' = [main EXCEPT !.pc = "done"]
       ELSE \* the rejection leaves main(): unhandledRejection
            /\ main' = [main EXCEPT !.pc = "failed"]
            /\ UNCHANGED <<live, browser, page, sess>>
    /\ ret' = NoRet
    /\ UNCHANGED <<formSubmitted, nLaunch, dom, task, fillOK, href, summaryCache>>

MainNext ==
    \/ Next
    \/ \E ok \in BOOLEAN : RunSettles(ok)
    \/ \E ok \in BOOLEAN : MainCloseDone(ok)

MainSpec == Init /\ [][MainNext]_vars

\* the same, the agent invoking its tools one after another
MainSeqNext ==
    \/ SeqNext
    \/ \E ok \in BOOLEAN : RunSettles(ok)
    \/ \E ok \in BOOLEAN : MainCloseDone(ok)

MainSeqSpec == Init /\ [][MainSeqNext]_vars

(***************************************************************************)
(* The variant with take_screenshot (part_001): its analysis tool keeps    *)
(* the summaries it built in summaryCache, keyed by the page's address,    *)
(* and hands a cached one out while it is younger than 8 s.  The scroll    *)
(* position, the other half of the key, stays 0 here.                      *)
(***************************************************************************)
\* this variant's extractPageSummary: the headings are sliced before the
\* empty ones are dropped, and a clickable needs a text
extractPageSummary1(d) ==
    [headings |->
        SelectSeq(Take(SelectSeq(Indices(d), LAMBDA j : IsHeading(d[j])), MaxHeadings),
                  LAMBDA j : Truthy(d[j])),
     clickable |->
        Take(SelectSeq(Indices(d),
                       LAMBDA j : IsClickable(d[j]) /\ Truthy(d[j]) /\ isVisible(d[j])),
             MaxClickable),
     inputs |-> Take(SelectSeq(Indices(d), LAMBDA j : IsInput(d[j])), MaxInputs)]

Summary1Of == [u \in PageNames |-> extractPageSummary1(DomOf(u))] @@ << >>

\* url: the address to navigate to first, 0 for null
NoUrl == NPages + 1

\* take_screenshot.execute({ url, include_image }) in an open session; ok: the
\* model call analyzeSummaryText resolves
TakeScreenshot(p, url, ok) ==
    /\ main.pc = "run"
    /\ \A q \in Procs : task[q].pc = "idle"
    /\ PageAlive(page)
    /\ LET t == [IdleTask EXCEPT !.tool = "take_screenshot", !.br = browser, !.pg = page]
           \* if (url) await page.goto(url, ...)
           shown == IF url = NoUrl THEN dom[page] ELSE url
           key == IF url = NoUrl THEN href[page] ELSE url
           hit == key \in DOMAIN summaryCache /\ summaryCache[key].fresh
           pageSummary == IF hit THEN summaryCache[key].summary ELSE Summary1Of[shown]
       IN  /\ dom' = [dom EXCEPT ![page] = shown]
           /\ href' = [href EXCEPT ![page] = key]
           /\ summaryCache' =
                 IF hit THEN summaryCache
                 ELSE (key :> [summary |-> pageSummary, fresh |-> TRUE]) @@ summaryCache
           /\ task' = task
           /\ ret' = [tool |-> t.tool, io |-> [NoIO EXCEPT !.flaky = ~ok], pg |-> page,
                      out |-> IF ok
                              THEN [success |-> TRUE, summary |-> pageSummary]
                              ELSE ErrorOut]
    /\ UNCHANGED <<browser, page, formSubmitted, live, nLaunch, sess, fillOK, main>>

\* the page's script replaces what the page shows (a view of a single-page
\* application): the address stays
ViewChanges(u) ==
    /\ PageAlive(page)
    /\ u # dom[page]
    /\ dom' = [dom EXCEPT ![page] = u]
    /\ ret' = NoRet
    /\ UNCHANGED <<browser, page, formSubmitted, live, nLaunch, task, sess, fillOK, href,
                   summaryCache, main>>

\* 8 s pass: Date.now() - ts >= 8_000 for every entry
Expire ==
    /\ \E k \in DOMAIN summaryCache : summaryCache[k].fresh
    /\ summaryCache' =
          [k \in DOMAIN summaryCache |-> [summaryCache[k] EXCEPT !.fresh = FALSE]]
    /\ ret' = NoRet
    /\ UNCHANGED <<browser, page, formSubmitted, live, nLaunch, dom, task, sess, fillOK,
                   href, main>>

\* a session an earlier open_url set up
CacheInit ==
    /\ nLaunch \in BrowserIds
    /\ \A i \in BrowserIds : nLaunch <= i
    /\ browser = nLaunch
    /\ page = nLaunch
    /\ live = {nLaunch}
    /\ formSubmitted = FALSE
    /\ \E u \in Sites : dom = [i \in BrowserIds |-> IF i = nLaunch THEN u ELSE BlankPage]
    /\ href = dom
    /\ summaryCache = << >>
    /\ task = [q \in Procs |-> IdleTask]
    /\ ret = NoRet
    /\ sess = [launch |-> nLaunch, newPage |-> nLaunch]
    /\ fillOK = FALSE
    /\ main = MainRuns

CacheNext ==
    \/ \E p \in Procs, url \in Sites \cup {NoUrl}, ok \in BOOLEAN : TakeScreenshot(p, url, ok)
    \/ \E u \in Sites : ViewChanges(u)
    \/ Expire

CacheSpec == CacheInit /\ [][CacheNext]_vars

(***************************************************************************)
(* SelSpec: one invocation of a tool that reads the page, on any of the    *)
(* pages, in a session an earlier open_url set up.                         *)
(***************************************************************************)
PageTools == {"analyze_page", "click_sidebar", "fill_signup_form"}

SelInit ==
    /\ nLaunch \in BrowserIds
    /\ \A i \in BrowserIds : nLaunch <= i
    /\ browser = nLaunch
    /\ page = nLaunch
    /\ live = {nLaunch}
    /\ formSubmitted = FALSE
    /\ \E u \in PageNames : dom = [i \in BrowserIds |-> IF i = nLaunch THEN u ELSE BlankPage]
    /\ \E t \in PageTools, p \in Procs :
          /\ \A q \in Procs : p <= q
          /\ task = [q \in Procs |->
                        IF q = p
                        THEN [IdleTask EXCEPT !.pc = "body", !.tool = t,
                                              !.br = browser, !.pg = page]
                        ELSE IdleTask]
    /\ ret = NoRet
    /\ sess = [launch |-> nLaunch, newPage |-> nLaunch]
    /\ fillOK = FALSE
    /\ href = dom
    /\ summaryCache = << >>
    /\ main = MainRuns

SelNext ==
    \E p \in Procs :
        \/ \E img \in BOOLEAN, ok \in BOOLEAN : Evaluate(p, img, ok)
        \/ \E ok \in BOOLEAN : Shot(p, ok)
        \/ \E label \in Labels, fail \in SidebarFails : ClickSidebar(p, label, fail)
        \/ \E fault \in Faults : FillFields(p, fault)
        \/ \E fail \in SidebarFails : Submit(p, fail)

SelSpec == SelInit /\ [][SelNext]_vars

(***************************************************************************)
(* The claims.                                                             *)
(***************************************************************************)
\* the step is the invocation of tool t: execute() went on to an await, or
\* returned at once
Called(t) ==
    \E p \in Procs :
        /\ task[p].pc = "idle"
        /\ \/ task'[p].pc # "idle" /\ task'[p].tool = t
           \/ task' = task /\ ret'.tool = t

\* the step changes nothing of the process's or the browsers' state
NothingDone ==
    /\ task' = task
    /\ UNCHANGED <<browser, page, formSubmitted, live, nLaunch, dom, href, sess>>

\* C1: a fill_signup_form call made after an earlier one completed with
\* success returns exactly {success:false, error:'Form already submitted'}
\* at once: no locator query, no typing, no click, no browser launch.
C1_SecondFillRejected ==
    [][(fillOK /\ Called("fill_signup_form"))
          => /\ ret'.tool = "fill_signup_form"
             /\ ret'.out = RejectedOut
             /\ ret'.io = NoIO
             /\ NothingDone]_vars

C1_Witness ==
    /\ fillOK
    /\ ret.tool = "fill_signup_form"
    /\ ret.out = RejectedOut

\* the invocation that returned clicked a submit button
SubmitClicked(i) ==
    \E k \in 1..Len(i.acts) :
        /\ i.acts[k].list = "submit"
        /\ i.acts[k].sel # 0
        /\ i.acts[k].elt \in {i.clicked[n] : n \in 1..Len(i.clicked)}

\* C2: formSubmitted changes from false to true only in a fill_signup_form
\* call in which a submit button was found and its click completed.
C2_FlagOnlyOnClick ==
    [][(~formSubmitted /\ formSubmitted')
          => /\ ret'.tool = "fill_signup_form"
             /\ SubmitClicked(ret'.io)]_vars

\* C3: once formSubmitted is true it stays true through every later step of
\* every tool, finalize_session's close and a later relaunch included.
C3_OneWay == [][formSubmitted => formSubmitted']_vars

\* the flag, set in the first session, after that browser was closed and the
\* last one launched, before any page exists in it
C3_Witness ==
    /\ formSubmitted
    /\ live = {MaxLaunch}
    /\ \E p \in Procs : task[p].pc = "newpage" /\ task[p].mine = MaxLaunch

\* C4: while no closeBrowser came in between, tools called one after another
\* launch one browser and open one page, and launchBrowser returns that
\* browser and that page to every one of them.
C4_SameSession ==
    /\ sess.launch <= 1
    /\ sess.newPage <= 1
    /\ live \subseteq {browser}
    /\ \A p \in Procs :
          task[p].pc \in {"body", "shot", "submit"}
             => /\ sess.launch = 1
                /\ task[p].br = browser
                /\ task[p].pg = page

\* a later call got the page an earlier open_url had navigated
C4_Witness ==
    \E p \in Procs :
        /\ task[p].pc = "body"
        /\ task[p].pg = page
        /\ PageAlive(page)
        /\ dom[page] \in Sites
        /\ sess = [launch |-> 1, newPage |-> 1]

\* C5: at most one launched and not yet closed browser exists, also when
\* tool invocations that call launchBrowser overlap.
C5_AtMostOneBrowser == Cardinality(live) <= 1

\* C6: closeBrowser without a session calls no driver operation and changes
\* nothing; with a session, once browser.close resolved, the browser is
\* closed and both handles are cleared; browser.close is called once.
C6_Close ==
    [][/\ (browser = 0 /\ Called("finalize_session"))
            => /\ ret'.tool = "finalize_session"
               /\ ret'.out = ClosedOut
               /\ ret'.io = NoIO
               /\ NothingDone
       /\ (ret'.tool = "finalize_session" /\ ret'.out = ClosedOut)
            => /\ browser' = 0
               /\ page' = 0
               /\ live' = {}
               /\ ret'.io.close = (IF browser = 0 THEN 0 ELSE 1)]_vars

\* a second finalize_session, after the first closed the browser
C6_Witness ==
    /\ ret.tool = "finalize_session"
    /\ ret.out = ClosedOut
    /\ ret.io.close = 0
    /\ nLaunch > 0
    /\ browser = 0

\* C7: whatever driver operation fails during a call, execute() returns an
\* object {success:false, error} and does not throw.
C7_NeverThrows == ret.out # ThrownOut

\* the selectors of the list an invocation of tool t went through
SelsOf(t, list) ==
    IF t = "click_sidebar" THEN SidebarSelectors(list) ELSE FieldSelectors(list)

\* r records the lowest selector of sels that matches on d, its first element,
\* and no evaluation of a later selector
LowestMatch(r, sels, d) ==
    IF \A i \in 1..Len(sels) : \A j \in 1..Len(d) : ~Matches(sels[i], d[j])
    THEN r.sel = 0 /\ r.elt = 0 /\ r.evald = Len(sels)
    ELSE /\ r.sel \in 1..Len(sels)
         /\ r.elt \in 1..Len(d)
         /\ Matches(sels[r.sel], d[r.elt])
         /\ \A j \in 1..(r.elt - 1) : ~Matches(sels[r.sel], d[j])
         /\ \A i \in 1..(r.sel - 1) : \A j \in 1..Len(d) : ~Matches(sels[i], d[j])
         /\ r.evald = r.sel

\* the selector lists' records of what an invocation did
ListActs(i) == {k \in 1..Len(i.acts) : i.acts[k].list # "submit"}

MatchedBy(f, e) ==
    \E i \in 1..Len(FieldSelectors(f)) : Matches(FieldSelectors(f)[i], e)

HasRole(d, role) == \E j \in 1..Len(d) : d[j].role = role

\* C9: on a page with a password input and a confirm-password input, no
\* element is matched by a selector of the password list and by a selector
\* of the confirmPassword list.
C9_Disjoint ==
    \A b \in live :
        LET d == DomOf(dom[b])
        IN  (HasRole(d, "password") /\ HasRole(d, "confirmPassword"))
               => \A j \in 1..Len(d) :
                     ~(MatchedBy("password", d[j]) /\ MatchedBy("confirmPassword", d[j]))

\* C10: click_sidebar(label), its driver operations not failing on their own:
\* if a selector matches an element it clicks exactly one element and
\* returns {success:true, clicked:label} with the selector that matched; if
\* none matches it clicks nothing and returns {success:false, error:'not_found'}.
C10_ClickSidebar ==
    (ret.tool = "click_sidebar" /\ ~ret.io.flaky /\ Len(ret.io.acts) = 1)
       => LET label == ret.io.acts[1].list
              sels == SidebarSelectors(label)
              d == DomOf(dom[ret.pg])
          IN  IF \E i \in 1..Len(sels) : \E j \in 1..Len(d) : Matches(sels[i], d[j])
              THEN /\ ret.out.success
                   /\ ret.out.clicked = label
                   /\ ret.out.selector \in {sels[i] : i \in 1..Len(sels)}
                   /\ \E j \in 1..Len(d) :
                         /\ Matches(ret.out.selector, d[j])
                         /\ ret.io.clicked = <<j>>
              ELSE /\ ret.out = NotFoundOut
                   /\ ret.io.clicked = << >>

\* C11: click_sidebar acts on a visible element only: the element it scrolls
\* to, hovers and clicks is never one that is not rendered, also when the
\* first match in document order is hidden and a visible duplicate follows.
C11_VisibleTarget ==
    (ret.tool = "click_sidebar" /\ ~ret.io.flaky)
       => \A k \in 1..Len(ret.io.acts) :
             ret.io.acts[k].sel # 0 => DomOf(dom[ret.pg])[ret.io.acts[k].elt].vis

\* C12: whatever the page, a summary has at most 10 headings, at most 30
\* clickable descriptors and at most 40 input descriptors.
C12_SummaryCaps ==
    (ret.tool = "analyze_page" /\ ret.out.success)
       => /\ Len(ret.out.analysis.headings) <= 10
          /\ Len(ret.out.analysis.clickable) <= 30
          /\ Len(ret.out.analysis.inputs) <= 40

\* a summary of a page with more elements of each kind than the caps
C12_Witness ==
    /\ ret.tool = "analyze_page"
    /\ ret.out.success
    /\ Len(ret.out.analysis.headings) = 10
    /\ Len(ret.out.analysis.clickable) = 30
    /\ Len(ret.out.analysis.inputs) = 40
    /\ Cardinality({j \in 1..Len(DomOf(dom[ret.pg])) :
                       IsInput(DomOf(dom[ret.pg])[j])}) > 40

\* C13: every element a summary reports, clickable descriptors and input
\* descriptors alike, is visible (rendered wider and higher than 1px).
C13_SummaryVisible ==
    (ret.tool = "analyze_page" /\ ret.out.success)
       => LET d == DomOf(dom[ret.pg])
              a == ret.out.analysis
          IN  /\ \A k \in 1..Len(a.clickable) : d[a.clickable[k]].vis
              /\ \A k \in 1..Len(a.inputs) : d[a.inputs[k]].vis

\* the fields whose selector loop an invocation ran
Attempted(i) == {i.acts[k].list : k \in ListActs(i)}

\* C14: the fields of fill_signup_form are independent: whatever happens
\* while one field is handled, every later field is still attempted.
C14_FieldsIndependent ==
    (ret.tool = "fill_signup_form" /\ ret.out # RejectedOut /\ ~ret.io.flaky)
       => \A n \in 1..Len(FieldNames) : FieldNames[n] \in Attempted(ret.io)

\* the fields that some selector of their list matches on d
Present(d) ==
    {FieldNames[n] : n \in {m \in 1..Len(FieldNames) :
        \E i \in 1..Len(FieldSelectors(FieldNames[m])) : \E j \in 1..Len(d) :
            Matches(FieldSelectors(FieldNames[m])[i], d[j])}}

\* C15: whichever of the five fields the page has, fill_signup_form returns
\* success:true and `filled` has exactly the fields for which some selector
\* matched, each with the value passed for it.
C15_MissingSkipped ==
    (ret.tool = "fill_signup_form" /\ ret.out # RejectedOut /\ ~ret.io.flaky)
       => /\ ret.out.success
          /\ DOMAIN ret.out.filled = Present(DomOf(dom[ret.pg]))
          /\ \A f \in DOMAIN ret.out.filled : ret.out.filled[f] = <<"vals", f>>

\* the same, on pages whose matched elements are all rendered
C15_OnRenderedPages ==
    (/\ ret.tool = "fill_signup_form" /\ ret.out # RejectedOut /\ ~ret.io.flaky
     /\ \A j \in 1..Len(DomOf(dom[ret.pg])) : DomOf(dom[ret.pg])[j].vis)
       => /\ ret.out.success
          /\ DOMAIN ret.out.filled = Present(DomOf(dom[ret.pg]))
          /\ \A f \in DOMAIN ret.out.filled : ret.out.filled[f] = <<"vals", f>>

\* C16: a successful fill_signup_form result has the shape {success, filled,
\* submitted}, submitted being true exactly when a submit button was found
\* and clicked in that call.
C16_SubmittedReported ==
    (ret.tool = "fill_signup_form" /\ ret.out.success)
       => /\ DOMAIN ret.out = {"success", "filled", "submitted"}
          /\ ret.out.submitted = SubmitClicked(ret.io)

\* C17: however run() settles, main's finally block calls closeBrowser before
\* main completes; main completes with no browser open and both handles
\* cleared.
C17_Teardown ==
    /\ [](main.pc = "done"
            => /\ browser = 0
               /\ page = 0
               /\ live = {})
    /\ [][(main.pc = "run" /\ main'.pc # "run")
            => /\ main'.run \in {"resolved", "rejected"}
               /\ main'.target = browser
               /\ main'.pc = (IF browser # 0 THEN "closing" ELSE "done")]_vars

\* C18: a summary handed to the caller is the summary of the page as the
\* page is at that call, never one an earlier call built.
C18_SummaryFresh ==
    /\ (ret.tool = "analyze_page" /\ ret.out.success)
          => ret.out.analysis = extractPageSummary(DomOf(dom[ret.pg]))
    /\ (ret.tool = "take_screenshot" /\ ret.out.success)
          => ret.out.summary = extractPageSummary1(DomOf(dom[ret.pg]))

\* C19: of two fill_signup_form invocations in flight at the same time at
\* most one clicks the submit button: an invocation that returns once the
\* flag is set has clicked no submit button.
C19_OneSubmitUnderOverlap ==
    [][(formSubmitted /\ ret'.tool = "fill_signup_form" /\ ~ret'.io.flaky)
          => ~SubmitClicked(ret'.io)]_vars

\* the inputs of d the page's author means for `role`
InputsFor(d, role) == {j \in 1..Len(d) : d[j].role = role}

\* the field whose value input j holds after what i records was done: the
\* last one typed into it (clear() empties the input first), "" if none was
Holds(i, j) ==
    LET ks == {k \in 1..Len(i.acts) : i.acts[k].elt = j /\ <<i.acts[k].list, j>> \in i.typed}
    IN  IF ks = {} THEN ""
        ELSE i.acts[CHOOSE k \in ks : \A m \in ks : m <= k].list

\* C20: after fill_signup_form returns success on a page with one password
\* input and one distinct confirm-password input, the main password value was
\* never written into the confirm input, and filled.password is reported
\* only if the password input holds a value.
C20_PasswordFields ==
    LET d == DomOf(dom[ret.pg])
    IN  (/\ ret.tool = "fill_signup_form" /\ ret.out.success
         /\ Cardinality(InputsFor(d, "password")) = 1
         /\ Cardinality(InputsFor(d, "confirmPassword")) = 1)
           => /\ \A j \in InputsFor(d, "confirmPassword") : <<"password", j>> \notin ret.io.typed
              /\ "password" \in DOMAIN ret.out.filled
                    => \A j \in InputsFor(d, "password") : Holds(ret.io, j) # ""

\* C21: browser.close is called at most once for each launched browser, also
\* when closeBrowser invocations overlap: no two invocations are suspended at
\* `await browser.close()` of the same browser.
C21_CloseOnce ==
    \A p \in Procs : \A q \in Procs :
        (p # q /\ task[p].pc = "closing" /\ task[q].pc = "closing")
           => task[p].mine # task[q].mine

\* C22: the session handle is a whole pair: while no launchBrowser or
\* closeBrowser call is in progress the browser handle is set exactly when
\* the page handle is, and launchBrowser never returns a browser together
\* with an undefined page.
C22_WholePair ==
    /\ (\A p \in Procs : task[p].pc \notin {"launch", "newpage", "closing"})
          => (browser # 0 <=> page # 0)
    /\ \A p \in Procs :
          task[p].pc \in {"body", "shot", "submit"} => (task[p].br # 0 => task[p].pg # 0)

\* C23: a fill_signup_form call that ends with {success:false, error}
\* because a driver operation threw leaves formSubmitted false, and the next
\* fill_signup_form call is not rejected as already submitted.
C23_FailureLeavesFlag ==
    [][/\ (ret'.tool = "fill_signup_form" /\ ret'.out = ErrorOut) => ~formSubmitted'
       /\ (ret.tool = "fill_signup_form" /\ ret.out = ErrorOut /\ Called("fill_signup_form"))
            => /\ ret'.out # RejectedOut
               /\ \E p \in Procs : task'[p].pc # "idle"]_vars

\* a call whose click on the submit button threw, after the fields were typed
C23_Witness ==
    /\ ret.tool = "fill_signup_form"
    /\ ret.out = ErrorOut
    /\ ret.io.typed # {}
    /\ \E k \in 1..Len(ret.io.acts) : ret.io.acts[k].list = "submit" /\ ret.io.acts[k].sel # 0
    /\ ~formSubmitted

====
